---- MODULE Spec2Model ----
(***************************************************************************)
(* A model of the three programs of the repository:                        *)
(*   - src/grokyhoo.py     TickerMonitorAgent, the day-gainers monitor     *)
(*                         (a main thread and one daemon monitor thread),  *)
(*   - src/grok-yahoo2.py  the React portfolio manager (scanAndTrade,      *)
(*                         an async function called from setInterval),     *)
(*   - src/odte.py         ZeroDTEScanner (execute_trade, monitor loop).   *)
(* The three programs share nothing; the variable prog says which of them  *)
(* a behaviour is a run of.  Arithmetic is exact (integers and ratios      *)
(* compared by cross-multiplication) where the code uses IEEE doubles.     *)
(***************************************************************************)
EXTENDS Integers, Sequences, FiniteSets, Bags, TLC

VARIABLES
    prog,            \* which program runs: "agent", "portfolio" or "scanner"
    \* ---- TickerMonitorAgent (src/grokyhoo.py)
    known_tickers,   \* self.known_tickers
    state_file,      \* ticker_state.json on disk
    running,         \* self.running
    main_pc,         \* position of the main thread in main()
    mon_pc,          \* position of the monitor thread in monitor_loop()
    current_tickers, \* what fetch_tickers returned to the latest
                     \* check_for_new_tickers that has called it
    new_tickers,     \* local of check_for_new_tickers
    announcements,   \* the messages given to announce(), oldest first
    last_save,       \* outcome of the cycle's save_state call
    cycles,          \* number of check_for_new_tickers calls begun
    stop_at,         \* where the monitor thread was when stop() was called
    loads,           \* what load_state loaded in each run of the program so
                     \* far, oldest first
    \* ---- React portfolio manager (src/grok-yahoo2.py)
    sp500,           \* state sp500: the set of S&P 500 symbols
    load_pc,         \* "pending" until loadSP500 has finished
    portfolio,       \* state portfolio: the held positions, oldest first
    currentPrices,   \* state currentPrices: symbol -> price
    interval_on,     \* the setInterval of the scan effect is installed
    closure,         \* the state values the installed scanAndTrade closes over
    scans,           \* the bag of scanAndTrade invocations in progress
    started,         \* number of scanAndTrade invocations so far
    signalled,       \* the symbols whose entry signal fired on the bars the
                     \* chart endpoint serves now (no new bar since)
    \* ---- ZeroDTEScanner (src/odte.py)
    positions,       \* self.positions
    run_pc,          \* position in run()
    options,         \* the rows get_0dte_options gave find_trade_opportunities
    opportunities,   \* opportunities of run(): what find_trade_opportunities
                     \* returned
    best,            \* best_opportunity of run()
    pass_list,       \* the copy self.positions[:] a monitoring pass iterates
    pass_idx,        \* index of the pass in pass_list
    last_eval,       \* what the last iteration of the pass saw and did
    pass_log,        \* what each iteration of the pass came to, in order
    orders           \* the orders given to client.place_order, oldest first

agentVars == <<known_tickers, state_file, running, main_pc, mon_pc,
               current_tickers, new_tickers, announcements, last_save, cycles,
               stop_at, loads>>

portfolioVars == <<sp500, load_pc, portfolio, currentPrices, interval_on,
                   closure, scans, started, signalled>>

scannerVars == <<positions, run_pc, options, opportunities, best, pass_list,
                 pass_idx, last_eval, pass_log, orders>>

vars == <<prog, agentVars, portfolioVars, scannerVars>>

---------------------------------------------------------------------------
(* Bounds of the model *)

NumTickers == 2
MaxCycles == 3
MaxRuns == 2
MaxScans == 2
MaxTrending == 2
MaxPositions == 2
MaxChain == 3

TickerNames == <<"AAPL", "MSFT", "NVDA", "TSLA">>
Tickers == {TickerNames[i] : i \in 1..NumTickers}

---------------------------------------------------------------------------
(* TickerMonitorAgent *)

NoFile == [kind |-> "none", tickers |-> {}]
CorruptFile == [kind |-> "corrupt", tickers |-> {}]
GoodFile(s) == [kind |-> "ok", tickers |-> s]

StateFiles == {NoFile, CorruptFile} \cup {GoodFile(s) : s \in SUBSET Tickers}

\* load_state: the tickers of a readable state file; a missing file leaves
\* the empty set, and so does a file json.load rejects (the exception is
\* caught and printed).
LoadState(file) == IF file.kind = "ok" THEN file.tickers ELSE {}

\* save_state: the file after the call.  "ok" writes the known tickers;
\* "open_failed" (open() raised) leaves the file as it was; "write_failed"
\* (json.dump raised after open(.., 'w') truncated the file) leaves a file
\* json.load rejects.  The exception is caught and printed in both cases.
SaveOutcomes == {"ok", "open_failed", "write_failed"}

\* save_state that leaves the file as it is.
SaveStateKeepsFile(file, known, outcome) == file

SaveState(file, known, outcome) ==
    CASE outcome = "ok" -> GoodFile(known)
      [] outcome = "open_failed" -> file
      [] outcome = "write_failed" -> CorruptFile

\* NewTickers without the difference: every fetched ticker counts as new.
NewTickersNoDiff(current, known) == current

\* line 135: new_tickers = current_tickers - self.known_tickers
NewTickers(current, known) == current \ known

\* An update that adds nothing.
UpdateNothing(known, new) == known

\* line 143: self.known_tickers.update(new_tickers)
Update(known, new) == known \cup new

\* The positions of the monitor thread inside check_for_new_tickers.
CyclePcs == {"fetch", "announce", "update", "save"}

AgentInit(files) ==
    /\ known_tickers = {}
    /\ state_file \in files
    /\ running = FALSE
    /\ main_pc = "new"
    /\ mon_pc = "none"
    /\ current_tickers = {}
    /\ new_tickers = {}
    /\ announcements = <<>>
    /\ last_save = "none"
    /\ cycles = 0
    /\ stop_at = "none"
    /\ loads = <<>>

\* TickerMonitorAgent.__init__: the fields, then load_state().
AgentConstruct ==
    /\ prog = "agent"
    /\ main_pc = "new"
    /\ known_tickers' = LoadState(state_file)
    /\ loads' = Append(loads, LoadState(state_file))
    /\ running' = FALSE
    /\ main_pc' = "created"
    /\ UNCHANGED <<portfolioVars, scannerVars>>
    /\ UNCHANGED <<prog, stop_at, state_file, mon_pc, current_tickers, new_tickers,
                   announcements, last_save, cycles>>

\* start(), called once by main(): the flag, then the daemon thread.
AgentStart ==
    /\ prog = "agent"
    /\ main_pc = "created"
    /\ ~running
    /\ running' = TRUE
    /\ mon_pc' = "start"
    /\ main_pc' = "waiting"
    /\ UNCHANGED <<portfolioVars, scannerVars>>
    /\ UNCHANGED <<prog, loads, stop_at, known_tickers, state_file, current_tickers,
                   new_tickers, announcements, last_save, cycles>>

\* Entering check_for_new_tickers: nothing is fetched, found new or saved
\* by this call yet.
BeginCycle ==
    /\ cycles < MaxCycles
    /\ cycles' = cycles + 1
    /\ mon_pc' = "fetch"
    /\ new_tickers' = {}
    /\ last_save' = "none"

\* monitor_loop, line 160: the initial check, made whatever the flag says.
MonitorInitialCheck ==
    /\ prog = "agent"
    /\ main_pc # "exited"
    /\ mon_pc = "start"
    /\ BeginCycle
    /\ UNCHANGED <<portfolioVars, scannerVars>>
    /\ UNCHANGED <<prog, loads, stop_at, known_tickers, state_file, running, main_pc,
                   current_tickers, announcements>>

\* check_for_new_tickers, lines 128-137 and 147-148: fetch_tickers returns
\* (the empty set on any failure), and the delta is taken.
FetchDone ==
    /\ prog = "agent"
    /\ main_pc # "exited"
    /\ mon_pc = "fetch"
    /\ \E fetched \in SUBSET Tickers :
        /\ current_tickers' = fetched
        /\ new_tickers' = IF fetched = {} THEN {}
                          ELSE NewTickers(fetched, known_tickers)
        /\ mon_pc' = IF new_tickers' # {} THEN "announce" ELSE "loop"
    /\ UNCHANGED <<portfolioVars, scannerVars>>
    /\ UNCHANGED <<prog, loads, stop_at, known_tickers, state_file, running, main_pc,
                   announcements, last_save, cycles>>

\* An announce() whose text-to-speech and fallback audio both raise, were
\* the exceptions to leave announce(): the monitor thread would end.
AfterAnnounceFatal(spoken) == IF spoken THEN "update" ELSE "returned"

\* announce(), lines 110-123: the text-to-speech call sits in try/except
\* Exception, the fallback audio in try/except, so announce() returns to
\* line 143 of check_for_new_tickers whether or not the message was spoken.
AfterAnnounce(spoken) == "update"

\* announce(message), lines 138-140: the message is printed; speaking it
\* may fail, which announce() catches.
Announce ==
    /\ prog = "agent"
    /\ main_pc # "exited"
    /\ mon_pc = "announce"
    /\ \E spoken \in BOOLEAN :
        /\ announcements' = Append(announcements,
                                [tickers |-> new_tickers, spoken |-> spoken])
        /\ mon_pc' = AfterAnnounce(spoken)
    /\ UNCHANGED <<portfolioVars, scannerVars>>
    /\ UNCHANGED <<prog, loads, stop_at, known_tickers, state_file, running, main_pc,
                   current_tickers, new_tickers, last_save, cycles>>

\* line 143: self.known_tickers.update(new_tickers)
UpdateKnown ==
    /\ prog = "agent"
    /\ main_pc # "exited"
    /\ mon_pc = "update"
    /\ known_tickers' = Update(known_tickers, new_tickers)
    /\ mon_pc' = "save"
    /\ UNCHANGED <<portfolioVars, scannerVars>>
    /\ UNCHANGED <<prog, loads, stop_at, state_file, running, main_pc, current_tickers,
                   new_tickers, announcements, last_save, cycles>>

\* lines 144-146: self.save_state(), whose failure is printed and dropped.
SaveStateStep ==
    /\ prog = "agent"
    /\ main_pc # "exited"
    /\ mon_pc = "save"
    /\ \E outcome \in SaveOutcomes :
        /\ state_file' = SaveState(state_file, known_tickers, outcome)
        /\ last_save' = outcome
    /\ mon_pc' = "loop"
    /\ UNCHANGED <<portfolioVars, scannerVars>>
    /\ UNCHANGED <<prog, loads, stop_at, known_tickers, running, main_pc, current_tickers,
                   new_tickers, announcements, cycles>>

\* line 162: while self.running
MonitorLoopTest ==
    /\ prog = "agent"
    /\ main_pc # "exited"
    /\ mon_pc = "loop"
    /\ mon_pc' = IF running THEN "sleep" ELSE "returned"
    /\ UNCHANGED <<portfolioVars, scannerVars>>
    /\ UNCHANGED <<prog, loads, stop_at, known_tickers, state_file, running, main_pc,
                   current_tickers, new_tickers, announcements, last_save,
                   cycles>>

\* A loop that runs the check after every sleep.
CycleAfterSleepAlways(flag) == TRUE

\* line 164: if self.running -- the check runs after the sleep only when
\* the flag still holds.
CycleAfterSleep(flag) == flag

\* lines 163-165: the sleep ends; the flag is read again before the check.
MonitorWake ==
    /\ prog = "agent"
    /\ main_pc # "exited"
    /\ mon_pc = "sleep"
    /\ IF CycleAfterSleep(running)
       THEN BeginCycle
       ELSE /\ mon_pc' = "loop"
            /\ UNCHANGED <<new_tickers, last_save, cycles>>
    /\ UNCHANGED <<portfolioVars, scannerVars>>
    /\ UNCHANGED <<prog, loads, stop_at, known_tickers, state_file, running, main_pc,
                   current_tickers, announcements>>

\* main(), lines 202-204: Ctrl+C; stop() clears the flag and joins.
AgentStop ==
    /\ prog = "agent"
    /\ main_pc = "waiting"
    /\ running' = FALSE
    /\ stop_at' = mon_pc
    /\ main_pc' = "joining"
    /\ UNCHANGED <<portfolioVars, scannerVars>>
    /\ UNCHANGED <<prog, loads, known_tickers, state_file, mon_pc,
                   current_tickers, new_tickers, announcements, last_save,
                   cycles>>

\* stop(), line 182: join(timeout=1) returns, the thread ended or not.
AgentJoinReturn ==
    /\ prog = "agent"
    /\ main_pc = "joining"
    /\ main_pc' = "stopped"
    /\ UNCHANGED <<portfolioVars, scannerVars>>
    /\ UNCHANGED <<prog, loads, stop_at, known_tickers, state_file, running, mon_pc,
                   current_tickers, new_tickers, announcements, last_save,
                   cycles>>

\* main() returns and the interpreter exits: the monitor thread is a daemon
\* (line 174), so it is abandoned wherever it is.
ProcessExit ==
    /\ prog = "agent"
    /\ main_pc = "stopped"
    /\ main_pc' = "exited"
    /\ UNCHANGED <<portfolioVars, scannerVars>>
    /\ UNCHANGED <<prog, loads, stop_at, known_tickers, state_file, running, mon_pc,
                   current_tickers, new_tickers, announcements, last_save,
                   cycles>>

\* The program is run again (main(), line 192): a new process and a new
\* agent; of the earlier run the state file is left.
AgentRestart ==
    /\ prog = "agent"
    /\ main_pc = "exited"
    /\ Len(loads) < MaxRuns
    /\ main_pc' = "new"
    /\ known_tickers' = {}
    /\ running' = FALSE
    /\ mon_pc' = "none"
    /\ current_tickers' = {}
    /\ new_tickers' = {}
    /\ announcements' = <<>>
    /\ last_save' = "none"
    /\ stop_at' = "none"
    /\ UNCHANGED <<portfolioVars, scannerVars>>
    /\ UNCHANGED <<prog, loads, state_file, cycles>>

AgentNext ==
    \/ AgentConstruct
    \/ AgentStart
    \/ MonitorInitialCheck
    \/ FetchDone
    \/ Announce
    \/ UpdateKnown
    \/ SaveStateStep
    \/ MonitorLoopTest
    \/ MonitorWake
    \/ AgentStop
    \/ AgentJoinReturn
    \/ ProcessExit
    \/ AgentRestart

---------------------------------------------------------------------------
(* React portfolio manager *)

BUY_AMOUNT == 2000
LOSS_THRESHOLD == 200

\* The symbols the feeds of the model speak of.
Symbols == {"AMD", "IBM"}

\* Quoted prices.  NoQuote stands for every value `!price` rejects: the null
\* getQuote returns on an error, undefined, and a price of 0.
NoQuote == 0
Prices == {9, 10}

EmptyMap == [s \in {} |-> NoQuote]
PriceMaps(syms) == UNION {[S -> Prices] : S \in SUBSET syms}

\* The lists getTrending may return; the empty list also stands for its
\* failure (line 52).
TrendingLists == UNION {[1..n -> Symbols] : n \in 0..MaxTrending}

SymbolsOf(pf) == {pf[i].symbol : i \in 1..Len(pf)}

\* lines 160-167: the record of a purchase; shares = BUY_AMOUNT / currPrice
\* is kept as the exact ratio.
NewPos(symbol, currPrice) ==
    [symbol |-> symbol,
     buyPrice |-> currPrice,
     shares |-> [num |-> BUY_AMOUNT, den |-> currPrice],
     buyValue |-> BUY_AMOUNT]

\* lines 140-141: currValue = currPrice * pos.shares, and the test
\* currValue <= BUY_AMOUNT - LOSS_THRESHOLD (both sides times shares.den).
LossReached(currPrice, pos) ==
    currPrice * pos.shares.num <= (BUY_AMOUNT - LOSS_THRESHOLD) * pos.shares.den

\* lines 137-141: whether the sell loop splices pos out, given the prices
\* the function reads.
ShouldSell(pos, prices) ==
    /\ pos.symbol \in DOMAIN prices
    /\ prices[pos.symbol] # NoQuote
    /\ LossReached(prices[pos.symbol], pos)

\* lines 135-145: newPortfolio, the copy of `portfolio` without the
\* positions sold.
CheckSells(pf, prices) == SelectSeq(pf, LAMBDA pos : ~ShouldSell(pos, prices))

\* A buy loop that runs over the whole trending list.
FilterSp500All(trending, members) == trending

\* line 150: trending.filter(s => sp500.has(s))
RECURSIVE FilterSp500(_, _)
FilterSp500(trending, members) ==
    IF trending = <<>> THEN <<>>
    ELSE (IF Head(trending) \in members THEN <<Head(trending)>> ELSE <<>>)
         \o FilterSp500(Tail(trending), members)

\* line 154: the symbols left to the buy loop, from the first one that is
\* not in `portfolio` on (the loop `continue`s over held symbols without
\* suspending).
RECURSIVE SkipHeld(_, _)
SkipHeld(todo, pf) ==
    IF todo = <<>> THEN <<>>
    ELSE IF Head(todo) \in SymbolsOf(pf) THEN SkipHeld(Tail(todo), pf)
    ELSE todo

\* What getHistorical and the indicator library give checkBuyCondition: the
\* number of bars, the last two RSI values, the last close and the last
\* lower Bollinger band.
History(length, prevRsi, lastRsi, lastClose, lower) ==
    [length |-> length, prevRsi |-> prevRsi, lastRsi |-> lastRsi,
     lastClose |-> lastClose, lower |-> lower]

Histories ==
    {History(0, 50, 50, 95, 90),     \* getHistorical failed: no bars
     History(49, 30, 28, 95, 96),    \* too few bars
     History(50, 30, 28, 95, 96),    \* RSI crosses below 30, close under the band
     History(50, 30, 28, 95, 95),    \* close on the band
     History(50, 29, 28, 95, 96),    \* RSI was already below 30
     History(50, 31, 30, 95, 96)}    \* RSI not below 30

\* lines 91-114
CheckBuyCondition(h) ==
    IF h.length < 50 THEN FALSE
    ELSE LET rsiDropped == h.lastRsi < 30 /\ h.prevRsi >= 30
             bbOutLower == h.lastClose < h.lower
         IN  rsiDropped /\ bbOutLower

\* A scanAndTrade that starts at getTrending, without the sell loop.
NewScanBuysFirst == [pc |-> "trending", todo |-> <<>>, sold |-> FALSE]

\* An invocation of scanAndTrade: where it is suspended, the symbols of
\* sp500Trending the buy loop has still to handle (the current one first),
\* and whether its sell loop (lines 135-146) has run.
NewScan == [pc |-> "prices", todo |-> <<>>, sold |-> FALSE]
DoneScan == [pc |-> "done", todo |-> <<>>, sold |-> TRUE]

\* The invocations in progress after one of them, in state scan, has run to
\* its next await (state next) or to its end.
Resume(scan, next) ==
    IF next.pc = "done" THEN scans (-) SetToBag({scan})
    ELSE (scans (-) SetToBag({scan})) (+) SetToBag({next})

\* lines 153-154 and 173: the loop of the buys goes on with the symbols
\* `rest`, to its next await or to the end of the scan.
Advance(scan, rest) ==
    LET todo == SkipHeld(rest, closure.portfolio)
    IN  IF todo = <<>> THEN DoneScan
        ELSE [scan EXCEPT !.pc = "check", !.todo = todo]

PortfolioInit ==
    /\ sp500 = {}
    /\ load_pc = "pending"
    /\ portfolio = <<>>
    /\ currentPrices = EmptyMap
    /\ interval_on = FALSE
    /\ closure = [portfolio |-> <<>>, currentPrices |-> EmptyMap, sp500 |-> {}]
    /\ scans = EmptyBag
    /\ started = 0
    /\ signalled = {}

\* lines 13-27: loadSP500 ends, with the constituents or with an error.
LoadSP500 ==
    /\ prog = "portfolio"
    /\ load_pc = "pending"
    /\ load_pc' = "done"
    /\ \E ok \in BOOLEAN, symbols \in SUBSET Symbols :
        sp500' = IF ok THEN symbols ELSE sp500
    /\ UNCHANGED <<agentVars, scannerVars>>
    /\ UNCHANGED <<prog, portfolio, currentPrices, interval_on, closure, scans,
                   started, signalled>>

\* lines 29-39: the effect of [sp500].  It installs the interval and calls
\* scanAndTrade; both use the scanAndTrade of the render the effect belongs
\* to, whose `portfolio`, `currentPrices` and `sp500` are that render's.
StartInterval ==
    /\ prog = "portfolio"
    /\ load_pc = "done"
    /\ sp500 # {}
    /\ ~interval_on
    /\ interval_on' = TRUE
    /\ closure' = [portfolio |-> portfolio, currentPrices |-> currentPrices,
                   sp500 |-> sp500]
    /\ scans' = scans (+) SetToBag({NewScan})
    /\ started' = started + 1
    /\ UNCHANGED <<agentVars, scannerVars>>
    /\ UNCHANGED <<prog, sp500, load_pc, portfolio, currentPrices, signalled>>

\* lines 32-34: the interval fires and calls scanAndTrade, whatever earlier
\* calls are doing.
Tick ==
    /\ prog = "portfolio"
    /\ interval_on
    /\ started < MaxScans
    /\ scans' = scans (+) SetToBag({NewScan})
    /\ started' = started + 1
    /\ UNCHANGED <<agentVars, scannerVars>>
    /\ UNCHANGED <<prog, sp500, load_pc, portfolio, currentPrices, interval_on,
                   closure, signalled>>

\* lines 116-126 and 132-149: updateCurrentPrices ends (it fetched a quote
\* for each symbol of `portfolio`, keeping the prices that came), then the
\* sells are checked and newPortfolio is set; the call goes on to await
\* getTrending.
ScanSells(scan) ==
    /\ prog = "portfolio"
    /\ scan.pc = "prices"
    /\ LET symbols == SymbolsOf(closure.portfolio)
       IN  \E newPrices \in PriceMaps(symbols) :
             currentPrices' = IF symbols = {} THEN currentPrices ELSE newPrices
    /\ portfolio' = CheckSells(closure.portfolio, closure.currentPrices)
    /\ scans' = Resume(scan, [scan EXCEPT !.pc = "trending", !.sold = TRUE])
    /\ UNCHANGED <<agentVars, scannerVars>>
    /\ UNCHANGED <<prog, sp500, load_pc, interval_on, closure, started,
                   signalled>>

\* lines 149-154: getTrending returns; the list is filtered and the buy loop
\* runs up to its first await.
ScanTrending(scan) ==
    /\ prog = "portfolio"
    /\ scan.pc = "trending"
    /\ \E sp500Trending \in
            {FilterSp500(trending, closure.sp500) : trending \in TrendingLists} :
        scans' = Resume(scan, Advance(scan, sp500Trending))
    /\ UNCHANGED <<agentVars, scannerVars>>
    /\ UNCHANGED <<prog, sp500, load_pc, portfolio, currentPrices, interval_on,
                   closure, started, signalled>>

\* lines 56-77: what getHistorical may return for a symbol.  The bars of a
\* symbol are the same from one call to the next until a new bar comes:
\* where the signal has fired on them, a later call gets the bars that made
\* it fire, or none (the fetch failed, line 75).
Served(symbol) ==
    IF symbol \in signalled
    THEN {h \in Histories : h.length = 0 \/ CheckBuyCondition(h)}
    ELSE Histories

\* lines 156-157: checkBuyCondition returns.
ScanCheckBuy(scan) ==
    /\ prog = "portfolio"
    /\ scan.pc = "check"
    /\ \E shouldBuy \in {CheckBuyCondition(h) : h \in Served(Head(scan.todo))} :
        /\ scans' = Resume(scan, IF shouldBuy THEN [scan EXCEPT !.pc = "quote"]
                                 ELSE Advance(scan, Tail(scan.todo)))
        /\ signalled' = IF shouldBuy THEN signalled \cup {Head(scan.todo)}
                         ELSE signalled
    /\ UNCHANGED <<agentVars, scannerVars>>
    /\ UNCHANGED <<prog, sp500, load_pc, portfolio, currentPrices, interval_on,
                   closure, started>>

\* lines 158-170: getQuote returns; without a price nothing is bought,
\* with one the position is appended to the portfolio state.
ScanBuyQuote(scan) ==
    /\ prog = "portfolio"
    /\ scan.pc = "quote"
    /\ \E currPrice \in Prices \cup {NoQuote} :
        IF currPrice = NoQuote
        THEN portfolio' = portfolio
        ELSE /\ Len(portfolio) < MaxPositions
             /\ portfolio' =
                  Append(portfolio, NewPos(Head(scan.todo), currPrice))
    /\ scans' = Resume(scan, Advance(scan, Tail(scan.todo)))
    /\ UNCHANGED <<agentVars, scannerVars>>
    /\ UNCHANGED <<prog, sp500, load_pc, currentPrices, interval_on, closure,
                   started, signalled>>

\* The market moves on: the chart endpoint serves a new 5-minute bar
\* (interval=5m, line 60), and with it new last and previous RSI values.
NewBar ==
    /\ prog = "portfolio"
    /\ signalled # {}
    /\ signalled' = {}
    /\ UNCHANGED <<agentVars, scannerVars>>
    /\ UNCHANGED <<prog, sp500, load_pc, portfolio, currentPrices, interval_on,
                   closure, scans, started>>

\* One of the invocations in progress resumes.
ScanSellsStep == \E scan \in BagToSet(scans) : ScanSells(scan)
ScanTrendingStep == \E scan \in BagToSet(scans) : ScanTrending(scan)
ScanCheckBuyStep == \E scan \in BagToSet(scans) : ScanCheckBuy(scan)
ScanBuyQuoteStep == \E scan \in BagToSet(scans) : ScanBuyQuote(scan)

PortfolioNext ==
    \/ LoadSP500
    \/ StartInterval
    \/ Tick
    \/ ScanSellsStep
    \/ ScanTrendingStep
    \/ ScanCheckBuyStep
    \/ ScanBuyQuoteStep
    \/ NewBar

---------------------------------------------------------------------------
(* ZeroDTEScanner *)

\* CONFIG, lines 42-55.  Deltas are in hundredths, the percentages in
\* percent; prices and strikes are in cents.
MIN_DELTA == 15
MAX_DELTA == 35
RISK_REWARD_MIN == 3
MAX_LOSS_PERCENT == 50
TAKE_PROFIT_PERCENT == 150
MAX_POSITION_SIZE == 5
LIMIT_PRICE_BUFFER == 5

\* The contracts a 0DTE chain is drawn from: rows of the data frame
\* get_0dte_options returns, with the columns the scanner reads.
Option(ticker, type, strike, lastPrice, delta) ==
    [ticker |-> ticker, option_type |-> type, strike |-> strike,
     lastPrice |-> lastPrice, impliedVolatility |-> 20, delta |-> delta]

OptionPool ==
    {Option("SPY", "put", 440, 200, -20),
     Option("SPY", "put", 1000, 200, -30),
     Option("SPY", "put", 820, 200, -25),
     Option("QQQ", "put", 1000, 200, -20),
     Option("QQQ", "call", 40000, 400, 30),
     Option("QQQ", "call", 41000, 200, 50)}

Chains == {c \in SUBSET OptionPool : Cardinality(c) <= MaxChain}

Abs(x) == IF x < 0 THEN -x ELSE x

\* filter_by_delta that keeps every row.
FilterByDeltaAll(options_df) == options_df

\* filter_by_delta, lines 142-159
FilterByDelta(options_df) ==
    {o \in options_df : Abs(o.delta) >= MIN_DELTA /\ Abs(o.delta) <= MAX_DELTA}

\* lines 181-194: the risk/reward ratio of one row, as the exact ratio
\* num/den.  For a call the reward is impliedVolatility * underlying_price
\* * 0.1 with underlying_price = lastPrice * 100 / impliedVolatility, that
\* is lastPrice * 10.
RiskReward(row) ==
    LET potential_reward ==
            IF row.option_type = "call"
            THEN (row.impliedVolatility * (row.lastPrice * 100))
                 \div (row.impliedVolatility * 10)
            ELSE IF row.strike > row.lastPrice
                 THEN row.strike - row.lastPrice ELSE 0
        max_loss == row.lastPrice
    IN  IF max_loss > 0 THEN [num |-> potential_reward, den |-> max_loss]
        ELSE [num |-> 0, den |-> 1]

RatioGeq(a, b) == a.num * b.den >= b.num * a.den

\* calculate_risk_reward without the filter of line 202.
CalculateRiskRewardNoFilter(options_df) ==
    {[option |-> o, risk_reward |-> RiskReward(o)] : o \in options_df}

\* calculate_risk_reward, lines 161-205: the rows kept, each with its ratio.
CalculateRiskReward(options_df) ==
    {[option |-> o, risk_reward |-> RiskReward(o)] :
        o \in {x \in options_df :
                 RatioGeq(RiskReward(x), [num |-> RISK_REWARD_MIN, den |-> 1])}}

\* The orders of the set s as a sequence.
Orderings(s) ==
    {f \in [1..Cardinality(s) -> s] : \A i, j \in DOMAIN f : i # j => f[i] # f[j]}

\* find_trade_opportunities, lines 207-238: the kept rows of every ticker,
\* sorted by ratio, descending.  sort_values does not say how rows of equal
\* ratio are ordered, so every such order is a possible result.
FindTradeOpportunities(chain) ==
    {f \in Orderings(CalculateRiskReward(FilterByDelta(chain))) :
        \A i \in 1..(Len(f) - 1) : RatioGeq(f[i].risk_reward, f[i + 1].risk_reward)}

NoOption == [ticker |-> "none"]

\* lines 257-265: the option symbol (the expiry is today's date throughout).
OptionSymbol(option_data) ==
    <<option_data.ticker,
      IF option_data.option_type = "call" THEN "C" ELSE "P",
      option_data.strike>>

\* line 268
LimitPrice(option_data) ==
    (option_data.lastPrice * (100 + LIMIT_PRICE_BUFFER)) \div 100

\* lines 243-249: int(max_position_value / contract_cost)
MaxContracts(account_value, option_data) ==
    ((account_value * MAX_POSITION_SIZE) \div 100)
        \div (option_data.lastPrice * 100)

\* A stop placed above the entry price.
StopLossAbove(entry_price) == (entry_price * (100 + MAX_LOSS_PERCENT)) \div 100

\* line 281
StopLoss(entry_price) == (entry_price * (100 - MAX_LOSS_PERCENT)) \div 100
\* line 282
TakeProfit(entry_price) == (entry_price * (100 + TAKE_PROFIT_PERCENT)) \div 100

\* lines 277-284.  order_id is NoOrderId (None in the code) when the
\* response carries no orderId.
NoOrderId == "None"
Position(option_data, contracts, order_id) ==
    [symbol |-> OptionSymbol(option_data),
     contracts |-> contracts,
     entry_price |-> LimitPrice(option_data),
     stop_loss |-> StopLoss(LimitPrice(option_data)),
     take_profit |-> TakeProfit(LimitPrice(option_data)),
     order_id |-> order_id]

\* liquidationValue, in cents: $100 and $100,000.
AccountValues == {10000, 10000000}
\* What client.place_order(...).json() does: it raises, or returns a
\* response with an orderId, or returns one without.
OrderResponses == {"raised", "accepted", "no_order_id"}
TheOrderId == "orderId"

\* Quotes of an option; Unavailable stands for get_quote raising, or its
\* response lacking the symbol or its lastPrice.
Unavailable == -1
QuotePrices == {100, 105, 210, 300, 525, 1050, 1100}

\* ExitReason with strict comparisons.
ExitReasonStrict(position, current_price) ==
    IF current_price < position.stop_loss THEN "stop_loss"
    ELSE IF current_price > position.take_profit THEN "take_profit"
    ELSE "none"

\* A monitor that finds no price at a stop or a target.
ExitReasonNever(position, current_price) == "none"

\* lines 309-317: what monitor_positions does with a position at a price.
ExitReason(position, current_price) ==
    IF current_price <= position.stop_loss THEN "stop_loss"
    ELSE IF current_price >= position.take_profit THEN "take_profit"
    ELSE "none"

\* A removal that rewrites the contracts of the positions it leaves.
RemoveRewrites(list, x) ==
    [i \in DOMAIN list |-> [list[i] EXCEPT !.contracts = 0]]

\* list.remove: the list without its first element equal to x.
RECURSIVE Remove(_, _)
Remove(list, x) ==
    IF list = <<>> THEN <<>>
    ELSE IF Head(list) = x THEN Tail(list)
    ELSE <<Head(list)>> \o Remove(Tail(list), x)

NoEval == [kind |-> "none"]

ScannerInit ==
    /\ positions = <<>>
    /\ run_pc = "find"
    /\ options = {}
    /\ opportunities = <<>>
    /\ best = NoOption
    /\ pass_list = <<>>
    /\ pass_idx = 0
    /\ last_eval = NoEval
    /\ pass_log = <<>>
    /\ orders = <<>>

\* run(), lines 345-353: find_trade_opportunities over the chains of the
\* day, and the top row.
RunFind ==
    /\ prog = "scanner"
    /\ run_pc = "find"
    /\ \E chain \in Chains :
        \E result \in FindTradeOpportunities(chain) :
            /\ options' = chain
            /\ opportunities' = result
            /\ IF result = <<>>
               THEN /\ best' = NoOption
                    /\ run_pc' = "monitor"
               ELSE /\ best' = result[1].option
                    /\ run_pc' = "execute"
    /\ UNCHANGED <<agentVars, portfolioVars>>
    /\ UNCHANGED <<prog, positions, pass_list, pass_idx, last_eval, pass_log,
                   orders>>

\* lines 271-272: the order given to place_order, and what came of it.
OpenOrder(option_data, max_contracts, response) ==
    [side |-> "open", symbol |-> OptionSymbol(option_data),
     contracts |-> max_contracts,
     limit_price |-> LimitPrice(option_data), response |-> response]

\* execute_trade, lines 240-292, called from run() line 356.
ExecuteTrade ==
    /\ prog = "scanner"
    /\ run_pc = "execute"
    /\ run_pc' = "monitor"
    /\ \E account_ok \in BOOLEAN, account_value \in AccountValues,
          response \in OrderResponses :
        LET max_contracts == MaxContracts(account_value, best)
            order == OpenOrder(best, max_contracts, response)
        IN  IF ~account_ok \/ max_contracts < 1
            THEN UNCHANGED <<positions, orders>>
            ELSE /\ orders' = Append(orders, order)
                 /\ positions' =
                      IF response = "raised" THEN positions
                      ELSE Append(positions,
                                  Position(best, max_contracts,
                                           IF response = "accepted"
                                           THEN TheOrderId ELSE NoOrderId))
    /\ UNCHANGED <<agentVars, portfolioVars>>
    /\ UNCHANGED <<prog, best, options, opportunities, pass_list, pass_idx,
                   last_eval, pass_log>>

\* run(), line 364, and monitor_positions, lines 296-299: the loop test and
\* the copy of the list the pass iterates over.
MonitorBegin ==
    /\ prog = "scanner"
    /\ run_pc = "monitor"
    /\ IF positions = <<>>
       THEN /\ run_pc' = "done"
            /\ UNCHANGED <<pass_list, pass_idx, pass_log>>
       ELSE /\ run_pc' = "pass"
            /\ pass_list' = positions
            /\ pass_idx' = 1
            /\ pass_log' = <<>>
    /\ UNCHANGED <<agentVars, portfolioVars>>
    /\ UNCHANGED <<prog, positions, best, options, opportunities, last_eval,
                   orders>>

\* _close_position, lines 322-339: the sell order is placed, at a limit of
\* 0.01; True unless place_order raised.
ClosePosition(position, reason, placed) ==
    [side |-> "close", symbol |-> position.symbol,
     contracts |-> position.contracts,
     limit_price |-> 1,
     response |-> IF placed THEN "accepted" ELSE "raised"]

\* A pass that a failure ends: the positions after the failing one are
\* skipped.
PassNextAborts(idx, list, failed) == IF failed THEN Len(list) + 1 ELSE idx + 1

\* lines 299-300 and 319-320: the try is inside the for loop, and
\* _close_position catches what place_order raises, so the loop goes on to
\* the next position of its list whether the iteration failed or not.
PassNext(idx, list, failed) == idx + 1

\* monitor_positions, lines 299-320: one iteration of the loop.
MonitorPosition ==
    /\ prog = "scanner"
    /\ run_pc = "pass"
    /\ pass_idx <= Len(pass_list)
    /\ LET position == pass_list[pass_idx]
       IN  \E current_price \in QuotePrices \cup {Unavailable},
              placed \in BOOLEAN :
             LET reason == IF current_price = Unavailable THEN "none"
                           ELSE ExitReason(position, current_price)
                 failed == \/ current_price = Unavailable
                           \/ reason # "none" /\ ~placed
                 outcome == IF current_price = Unavailable THEN "no_quote"
                            ELSE IF reason = "none" THEN "kept"
                            ELSE IF placed THEN "closed" ELSE "close_failed"
             IN  /\ pass_idx' = PassNext(pass_idx, pass_list, failed)
                 /\ pass_log' = Append(pass_log, outcome)
                 /\ last_eval' = [kind |-> "eval", position |-> position,
                                  current_price |-> current_price,
                                  reason |-> reason,
                                  closed |-> (reason # "none" /\ placed)]
                 /\ IF reason = "none"
                    THEN UNCHANGED <<positions, orders>>
                    ELSE /\ orders' = Append(orders,
                                ClosePosition(position, reason, placed))
                         /\ positions' = Remove(positions, position)
    /\ UNCHANGED <<agentVars, portfolioVars>>
    /\ UNCHANGED <<prog, run_pc, best, options, opportunities, pass_list>>

\* run(), line 366: the pass is over; time.sleep(5), then the loop test.
MonitorSleep ==
    /\ prog = "scanner"
    /\ run_pc = "pass"
    /\ pass_idx > Len(pass_list)
    /\ run_pc' = "monitor"
    /\ UNCHANGED <<agentVars, portfolioVars>>
    /\ UNCHANGED <<prog, positions, best, options, opportunities, pass_list,
                   pass_idx, last_eval, pass_log, orders>>

ScannerNext ==
    \/ RunFind
    \/ ExecuteTrade
    \/ MonitorBegin
    \/ MonitorPosition
    \/ MonitorSleep

---------------------------------------------------------------------------

Programs == {"agent", "portfolio", "scanner"}

\* The agent starts with whatever state file an earlier run left.
InitAgent ==
    /\ prog = "agent"
    /\ AgentInit(StateFiles)
    /\ PortfolioInit
    /\ ScannerInit

InitPortfolio ==
    /\ prog = "portfolio"
    /\ AgentInit({NoFile})
    /\ PortfolioInit
    /\ ScannerInit

InitScanner ==
    /\ prog = "scanner"
    /\ AgentInit({NoFile})
    /\ PortfolioInit
    /\ ScannerInit

\* The options a scanner that is monitoring has bought, one per position.
BoughtLists ==
    UNION {[1..n -> {Option("SPY", "put", 1000, 200, -30),
                     Option("QQQ", "call", 40000, 400, 30)}] :
             n \in 1..MaxPositions}

\* A scanner in its monitoring loop, with the positions and the orders that
\* accepted execute_trade calls leave (lines 271-286), one call per option.
InitMonitor ==
    /\ prog = "scanner"
    /\ AgentInit({NoFile})
    /\ PortfolioInit
    /\ \E bought \in BoughtLists, account_value \in AccountValues :
        /\ \A i \in DOMAIN bought : MaxContracts(account_value, bought[i]) >= 1
        /\ positions =
              [i \in DOMAIN bought |->
                  Position(bought[i], MaxContracts(account_value, bought[i]),
                           TheOrderId)]
        /\ orders =
              [i \in DOMAIN bought |->
                  OpenOrder(bought[i], MaxContracts(account_value, bought[i]),
                            "accepted")]
    /\ run_pc = "monitor"
    /\ options = {}
    /\ opportunities = <<>>
    /\ best = NoOption
    /\ pass_list = <<>>
    /\ pass_idx = 0
    /\ last_eval = NoEval
    /\ pass_log = <<>>

\* The two trading programs.
InitTrading ==
    /\ prog \in {"portfolio", "scanner"}
    /\ AgentInit({NoFile})
    /\ PortfolioInit
    /\ ScannerInit

\* One of the three programs runs.
Init ==
    /\ prog \in Programs
    /\ AgentInit(IF prog = "agent" THEN StateFiles ELSE {NoFile})
    /\ PortfolioInit
    /\ ScannerInit

Next == AgentNext \/ PortfolioNext \/ ScannerNext

Spec == Init /\ [][Next]_vars

\* The runs of each program alone.
SpecAgent == InitAgent /\ [][AgentNext]_vars

\* One run of main() (lines 186-206) while its process lives.  The monitor
\* thread is a thread of its own (line 174): its sleep is bounded (line 163),
\* the request of a check has a timeout (line 71), so each of its steps
\* that can be taken is taken in the end.  Nothing is assumed of the main
\* thread, which may wait for Ctrl+C forever.
MonitorThread ==
    \/ MonitorInitialCheck
    \/ FetchDone
    \/ Announce
    \/ UpdateKnown
    \/ SaveStateStep
    \/ MonitorLoopTest
    \/ MonitorWake

MainThread ==
    \/ AgentConstruct
    \/ AgentStart
    \/ AgentStop
    \/ AgentJoinReturn
    \/ ProcessExit

AgentRunNext == MainThread \/ MonitorThread
SpecAgentRun == InitAgent /\ [][AgentRunNext]_vars /\ WF_vars(MonitorThread)
SpecPortfolio == InitPortfolio /\ [][PortfolioNext]_vars
SpecScanner == InitScanner /\ [][ScannerNext]_vars

\* run() is one thread whose calls return (the sleep of line 366 is five
\* seconds): a step of it that can be taken is taken in the end.
SpecScannerRun == InitScanner /\ [][ScannerNext]_vars /\ WF_vars(ScannerNext)

\* The runs of the two trading programs.
TradingNext == PortfolioNext \/ ScannerNext
SpecTrading == InitTrading /\ [][TradingNext]_vars

\* The monitoring loop of run(), lines 364-366, over the positions of a
\* scanner that holds several.
MonitorNext == MonitorBegin \/ MonitorPosition \/ MonitorSleep
SpecMonitor == InitMonitor /\ [][MonitorNext]_vars

---------------------------------------------------------------------------
(* Properties *)

\* The number of times x occurs in a list.
Occ(list, x) == Cardinality({i \in DOMAIN list : list[i] = x})

\* C1: the portfolio never holds two positions with the same symbol.
C1_NoDuplicateSymbol ==
    \A i, j \in 1..Len(portfolio) :
        i # j => portfolio[i].symbol # portfolio[j].symbol

\* C2: no ticker is announced twice in one run of the agent, and a ticker
\* that is in known_tickers is not in the announcement about to be made.
C2_AnnouncedAtMostOnce ==
    /\ \A i, j \in 1..Len(announcements) :
          i # j => announcements[i].tickers \cap announcements[j].tickers = {}
    /\ mon_pc = "announce" => new_tickers \cap known_tickers = {}

\* A second announcement was made in a cycle whose fetched set held a ticker
\* of the first announcement.
C2_Witness ==
    /\ mon_pc = "update"
    /\ Len(announcements) = 2
    /\ current_tickers \cap announcements[1].tickers # {}

\* C3: at most one scan cycle (check_for_new_tickers, scanAndTrade) is in
\* progress at any time.
C3_OneCycleInFlight ==
    /\ prog = "agent" => Cardinality({mon_pc} \cap CyclePcs) <= 1
    /\ prog = "portfolio" => BagCardinality(scans) <= 1

\* C4: a position whose exit condition was met but whose close order failed
\* is still in the open-position list.
C4_FailedCloseKeepsPosition ==
    (/\ last_eval.kind = "eval"
     /\ last_eval.reason # "none"
     /\ ~last_eval.closed)
    => Occ(positions, last_eval.position) > 0

\* C5: after a cycle whose save_state failed, the new tickers of that cycle
\* are not in known_tickers.
C5_FailedSaveNotCommitted ==
    last_save \in {"open_failed", "write_failed"}
    => new_tickers \cap known_tickers = {}

\* C6: an iteration of monitor_positions that has the price of its position
\* closes the position as a stop-loss exit if price <= stop_loss, as a
\* take-profit exit if price >= take_profit, and otherwise changes nothing.
\* Closing is what the scanner does to close: it submits the position's
\* close order and takes the position off the open-position list (what
\* becomes of a close order that fails is C4).
C6_ExitRule ==
    [][(run_pc = "pass" /\ pass_idx' = pass_idx + 1) =>
        LET position == pass_list[pass_idx]
            price == last_eval'.current_price
            Exited(reason) ==
                /\ last_eval'.reason = reason
                /\ Len(positions') = Len(positions) - 1
                /\ Occ(positions', position) = Occ(positions, position) - 1
                /\ Len(orders') = Len(orders) + 1
                /\ orders'[Len(orders')].side = "close"
                /\ orders'[Len(orders')].symbol = position.symbol
        IN  price # Unavailable =>
              /\ price <= position.stop_loss => Exited("stop_loss")
              /\ price >= position.take_profit => Exited("take_profit")
              /\ (position.stop_loss < price /\ price < position.take_profit)
                    => (/\ last_eval'.reason = "none"
                        /\ positions' = positions
                        /\ orders' = orders)
      ]_vars

\* A position was closed at a price equal to its stop_loss.
C6_Witness ==
    /\ last_eval.kind = "eval"
    /\ last_eval.reason = "stop_loss"
    /\ last_eval.current_price = last_eval.position.stop_loss
    /\ positions = <<>>

\* C7: a held position leaves the portfolio only in a step in which its
\* refreshed price gives currentValue <= buyValue - 200.
C7_SoldExactlyAtLossCut ==
    [][\A i \in 1..Len(portfolio) :
          LET pos == portfolio[i]
          IN  Occ(portfolio', pos) < Occ(portfolio, pos) =>
                /\ pos.symbol \in DOMAIN currentPrices'
                /\ currentPrices'[pos.symbol] * pos.buyValue
                     <= (pos.buyValue - LOSS_THRESHOLD) * pos.buyPrice
      ]_vars

\* C8: a position without a current price is left as it is, by the scan of
\* the portfolio and by the monitor of the scanner.
C8_NoPriceLeavesPosition ==
    [][/\ \A i \in 1..Len(portfolio) :
            portfolio[i].symbol \notin DOMAIN currentPrices'
            => Occ(portfolio', portfolio[i]) >= Occ(portfolio, portfolio[i])
       /\ (/\ run_pc = "pass"
           /\ pass_idx' = pass_idx + 1
           /\ last_eval'.current_price = Unavailable)
          => positions' = positions
      ]_vars

\* C9: every position on record comes from an order the gateway accepted
\* (scanner), from a quote that came (portfolio).
C9_FailedOpenAddsNothing ==
    /\ Len(positions) <=
         Cardinality({k \in DOMAIN orders : /\ orders[k].side = "open"
                                            /\ orders[k].response = "accepted"})
    /\ \A i \in 1..Len(portfolio) : portfolio[i].buyPrice # NoQuote

\* C10: when the process has exited after stop(), a cycle that was in
\* progress when stop() was called has run to its end.
C10_CycleCompletesBeforeHalt ==
    (main_pc = "exited" /\ stop_at \in CyclePcs)
    => mon_pc \in {"loop", "sleep", "returned"}

\* C11: an invocation of scanAndTrade that is evaluating an entry (awaiting
\* checkBuyCondition, or the quote of a buy) has run its sell loop, the exit
\* evaluation of the cycle, before.
C11_ExitsBeforeEntries ==
    \A scan \in BagToSet(scans) : scan.pc \in {"check", "quote"} => scan.sold

\* An invocation has run its sell loop and is now buying.
C11_Witness ==
    \E scan \in BagToSet(scans) : scan.pc = "quote" /\ scan.sold

\* C12: the entry signal of a symbol fires only on a downward crossing of 30
\* by the RSI (with the close under the lower band), and fires once for a
\* crossing: not again while the chart has no new bar.
C12_FiresOncePerCrossing ==
    /\ \A h \in Histories :
          CheckBuyCondition(h) =>
            h.lastRsi < 30 /\ h.prevRsi >= 30 /\ h.lastClose < h.lower
    /\ [][\A scan \in BagToSet(scans) :
            LET buying == [scan EXCEPT !.pc = "quote"]
            IN  (/\ scan.pc = "check"
                 /\ CopiesIn(buying, scans') > CopiesIn(buying, scans))
                => Head(scan.todo) \notin signalled
         ]_vars

\* The ratio of a row is at least risk_reward_min.
Scores(ratio) == ratio.num >= RISK_REWARD_MIN * ratio.den

\* C13: find_trade_opportunities returns exactly the rows within the delta
\* range whose risk/reward ratio is at least risk_reward_min, each once and
\* with its ratio, ordered by non-increasing ratio.
C13_RankedOpportunities ==
    run_pc # "find" =>
      LET candidates ==
              {o \in options : /\ Abs(o.delta) >= MIN_DELTA
                               /\ Abs(o.delta) <= MAX_DELTA}
          kept == {o \in candidates : Scores(RiskReward(o))}
      IN  /\ {opportunities[i].option : i \in DOMAIN opportunities} = kept
          /\ Len(opportunities) = Cardinality(kept)
          /\ \A i \in DOMAIN opportunities :
                opportunities[i].risk_reward = RiskReward(opportunities[i].option)
          /\ \A i, j \in DOMAIN opportunities :
                i < j => opportunities[i].risk_reward.num
                           * opportunities[j].risk_reward.den
                         >= opportunities[j].risk_reward.num
                           * opportunities[i].risk_reward.den

\* The chain with ratios 1.2, 4.0 and 3.1 gave the rows of 4.0 and 3.1, in
\* that order.
C13_Witness ==
    /\ options = {Option("SPY", "put", 440, 200, -20),
                  Option("SPY", "put", 1000, 200, -30),
                  Option("SPY", "put", 820, 200, -25)}
    /\ Len(opportunities) = 2
    /\ opportunities[1].option.strike = 1000
    /\ opportunities[2].option.strike = 820

\* C14: of two ranked opportunities with the same risk/reward ratio, the one
\* with the lower absolute delta comes first.
C14_TiesByLowerDelta ==
    \A i, j \in DOMAIN opportunities :
        (/\ i < j
         /\ opportunities[i].risk_reward.num * opportunities[j].risk_reward.den
              = opportunities[j].risk_reward.num * opportunities[i].risk_reward.den)
        => Abs(opportunities[i].option.delta) <= Abs(opportunities[j].option.delta)

\* C15: a cycle that fetches the set the cycle before it fetched finds
\* nothing new: it announces nothing and changes neither known_tickers nor
\* the state file.
C15_SecondDeltaEmpty ==
    [][(/\ mon_pc = "fetch"
        /\ mon_pc' \in {"announce", "loop"}
        /\ current_tickers' = current_tickers)
       => /\ new_tickers' = {}
          /\ mon_pc' = "loop"
          /\ known_tickers' = known_tickers
          /\ announcements' = announcements
          /\ state_file' = state_file
      ]_vars

\* The first cycle of a run announced and committed the set it fetched, and
\* the second cycle fetched the same set and found nothing new.
C15_Witness ==
    /\ Len(loads) = 1
    /\ cycles = 2
    /\ mon_pc = "loop"
    /\ Len(announcements) = 1
    /\ current_tickers # {}
    /\ announcements[1].tickers = current_tickers
    /\ known_tickers = current_tickers
    /\ new_tickers = {}

\* The tickers announced in this run, and the tickers load_state loaded in it.
AnnouncedSet == UNION {announcements[i].tickers : i \in DOMAIN announcements}
Loaded == IF loads = <<>> THEN {} ELSE loads[Len(loads)]

\* C16: after a save_state that succeeded the state file holds exactly the
\* tickers loaded at startup and the tickers announced since, which is
\* known_tickers; the file is left as it is by a restart; the agent of the
\* next run loads exactly the tickers of the file; and no loaded ticker is
\* announced.
C16_PersistedCommit ==
    /\ [](last_save = "ok" =>
            /\ state_file.kind = "ok"
            /\ state_file.tickers = Loaded \cup AnnouncedSet
            /\ state_file.tickers = known_tickers)
    /\ [](AnnouncedSet \cap Loaded = {})
    /\ [][(main_pc = "exited" /\ main_pc' = "new") => state_file' = state_file]_vars
    /\ [][(main_pc = "new" /\ main_pc' = "created" /\ state_file.kind = "ok")
          => /\ known_tickers' = state_file.tickers
             /\ state_file' = state_file]_vars

\* A second run loaded tickers the first run had not loaded but announced
\* and saved, fetched them again and announced nothing.
C16_Witness ==
    /\ Len(loads) = 2
    /\ loads[1] = {}
    /\ loads[2] # {}
    /\ mon_pc = "loop"
    /\ current_tickers = loads[2]
    /\ known_tickers = loads[2]
    /\ announcements = <<>>

\* C17: every position on record has stop_loss = entry_price * (1 -
\* max_loss_percent) and take_profit = entry_price * (1 +
\* take_profit_percent), where entry_price is the limit price of the order
\* that opened it; so stop_loss < entry_price < take_profit.
C17_StopAndTarget ==
    \A i \in DOMAIN positions :
        LET p == positions[i]
        IN  /\ p.stop_loss * 100 = p.entry_price * (100 - MAX_LOSS_PERCENT)
            /\ p.take_profit * 100 = p.entry_price * (100 + TAKE_PROFIT_PERCENT)
            /\ \E k \in DOMAIN orders :
                  /\ orders[k].side = "open"
                  /\ orders[k].symbol = p.symbol
                  /\ orders[k].contracts = p.contracts
                  /\ orders[k].limit_price = p.entry_price
            /\ p.entry_price > 0 =>
                  p.stop_loss < p.entry_price /\ p.entry_price < p.take_profit

\* A position entered at 2.10 has its stop at 1.05 and its target at 5.25.
C17_Witness ==
    /\ Len(positions) = 1
    /\ positions[1].entry_price = 210
    /\ positions[1].stop_loss = 105
    /\ positions[1].take_profit = 525

\* C18: a position leaves the open set only by its exit.  A position of the
\* portfolio goes in a step whose prices make its loss-cut test true; a
\* position of the scanner goes, once, in the iteration of the monitor that
\* evaluated it and found its stop or its target reached, and with every
\* close order a position goes; after a close no position is added.
C18_LeavesOnlyByExit ==
    [][/\ \A i \in DOMAIN portfolio :
            Occ(portfolio', portfolio[i]) < Occ(portfolio, portfolio[i])
            => ShouldSell(portfolio[i], currentPrices')
       /\ \A i \in DOMAIN positions :
            Occ(positions', positions[i]) < Occ(positions, positions[i])
            => /\ run_pc = "pass"
               /\ pass_idx' = pass_idx + 1
               /\ last_eval'.position = positions[i]
               /\ last_eval'.current_price # Unavailable
               /\ \/ last_eval'.current_price <= positions[i].stop_loss
                  \/ last_eval'.current_price >= positions[i].take_profit
               /\ Occ(positions', positions[i]) = Occ(positions, positions[i]) - 1
               /\ Len(positions') = Len(positions) - 1
       /\ (Len(orders') > Len(orders) /\ orders'[Len(orders')].side = "close")
            => Len(positions') = Len(positions) - 1
       /\ Len(positions') > Len(positions)
            => \A k \in DOMAIN orders : orders[k].side # "close"
      ]_vars

\* The list after is the list before, or the list before with one record
\* appended, or holds no record more often than the list before.
KeepsRecords(before, after) ==
    \/ after = before
    \/ /\ Len(after) = Len(before) + 1
       /\ SubSeq(after, 1, Len(before)) = before
    \/ \A i \in DOMAIN after : Occ(after, after[i]) <= Occ(before, after[i])

\* C19: no step changes a field of a position: the records of the portfolio
\* and of the scanner's positions are only appended and removed, and the
\* order that closes a position names the symbol and the contracts of the
\* order that opened it.
C19_EntryFieldsFixed ==
    [][/\ KeepsRecords(portfolio, portfolio')
       /\ KeepsRecords(positions, positions')
       /\ (Len(orders') > Len(orders) /\ orders'[Len(orders')].side = "close")
            => \E k \in DOMAIN orders :
                  /\ orders[k].side = "open"
                  /\ orders[k].symbol = orders'[Len(orders')].symbol
                  /\ orders[k].contracts = orders'[Len(orders')].contracts
      ]_vars

\* A monitoring pass has evaluated a position and left it open, and its
\* fields are those of the order that opened it.
C19_Witness ==
    /\ last_eval.kind = "eval"
    /\ last_eval.reason = "none"
    /\ last_eval.current_price # Unavailable
    /\ positions = <<last_eval.position>>
    /\ positions[1].symbol = orders[1].symbol
    /\ positions[1].contracts = orders[1].contracts
    /\ positions[1].entry_price = orders[1].limit_price

\* C20: a monitoring pass evaluates every position of its list, in order,
\* whatever the earlier iterations came to, and an iteration that fails (no
\* quote, or a close order that raises) touches no other position.
C20_FailuresIsolated ==
    /\ [](run_pc = "pass" =>
            /\ pass_idx = Len(pass_log) + 1
            /\ pass_idx <= Len(pass_list) + 1)
    /\ [][(run_pc = "pass" /\ run_pc' = "monitor")
          => Len(pass_log) = Len(pass_list)]_vars
    /\ [][(run_pc = "pass" /\ Len(pass_log') = Len(pass_log) + 1)
          => \A i \in DOMAIN positions :
                positions[i] # pass_list[pass_idx]
                => Occ(positions', positions[i]) = Occ(positions, positions[i])
         ]_vars

\* In a pass over two positions the quote of the first failed, and the
\* second was evaluated and closed.
C20_Witness ==
    /\ run_pc = "pass"
    /\ Len(pass_list) = 2
    /\ pass_list[1] # pass_list[2]
    /\ pass_log = <<"no_quote", "closed">>
    /\ positions = <<pass_list[1]>>

\* C21: a notification failure is never fatal.  A step that records an
\* announcement whose speaking failed takes the monitor thread on to the
\* update of known_tickers and leaves the running flag alone; and whenever
\* the thread is past a cycle whose announcement was not spoken, the new
\* tickers of that cycle are in known_tickers, save_state has been called,
\* and the thread stands in the loop (at its test, asleep, or returned only
\* after stop() cleared the flag).
C21_LastUnspoken ==
    /\ announcements # <<>>
    /\ ~announcements[Len(announcements)].spoken
    /\ new_tickers # {}
    /\ announcements[Len(announcements)].tickers = new_tickers

C21_AnnounceFailureNotFatal ==
    /\ [][(Len(announcements') = Len(announcements) + 1
            /\ ~announcements'[Len(announcements')].spoken)
           => (mon_pc' = "update" /\ running' = running
               /\ main_pc' = main_pc)]_vars
    /\ []((prog = "agent" /\ C21_LastUnspoken
           /\ mon_pc \notin {"fetch", "announce", "update", "save", "none", "start"})
          => /\ new_tickers \subseteq known_tickers
             /\ last_save \in SaveOutcomes
             /\ mon_pc \in {"loop", "sleep", "returned"}
             /\ (mon_pc = "returned" => ~running))
    /\ []((prog = "agent" /\ C21_LastUnspoken /\ mon_pc = "save")
          => new_tickers \subseteq known_tickers)

\* A cycle whose announcement was not spoken has completed, the state file
\* written, and the thread sleeps before the next cycle.
C21_Witness ==
    /\ prog = "agent"
    /\ C21_LastUnspoken
    /\ mon_pc = "sleep"
    /\ running
    /\ new_tickers \subseteq known_tickers
    /\ last_save = "ok"
    /\ state_file = GoodFile(known_tickers)

\* C22: a cycle that obtains no data changes nothing.  When fetch_tickers
\* hands check_for_new_tickers the empty set, the step announces nothing,
\* leaves known_tickers and the state file as they are and ends the cycle;
\* and a step of a scan after which no quote is on record removes no
\* position from the portfolio.
C22_NoDataChangesNothing ==
    [][/\ (/\ mon_pc = "fetch"
           /\ mon_pc' # "fetch"
           /\ main_pc' = main_pc
           /\ current_tickers' = {})
          => /\ announcements' = announcements
             /\ known_tickers' = known_tickers
             /\ state_file' = state_file
             /\ mon_pc' = "loop"
       /\ (prog = "portfolio" /\ DOMAIN currentPrices' = {})
          => /\ Len(portfolio') >= Len(portfolio)
             /\ \A i \in 1..Len(portfolio) : portfolio'[i] = portfolio[i]
      ]_vars

\* C23: every position bought is for a symbol of the trending list fetched
\* by the scan that bought it and of the loaded S&P 500 set, and no scan
\* starts before the set has been loaded non-empty.  The filter of line 150
\* keeps only symbols of the trending list that are in the set; the symbols
\* a scan has left to examine and the symbols held are all in the loaded
\* set; a scan has started only with the set loaded and non-empty; and a
\* step that adds a position adds one for the symbol a scan awaiting its
\* quote is examining.
C23_Elements(list) == {list[i] : i \in 1..Len(list)}

C23_BoughtFromTrendingSp500 ==
    /\ \A trending \in TrendingLists, members \in SUBSET Symbols :
          C23_Elements(FilterSp500(trending, members))
            = C23_Elements(trending) \cap members
    /\ [](prog = "portfolio" =>
            /\ \A i \in 1..Len(portfolio) : portfolio[i].symbol \in sp500
            /\ \A scan \in BagToSet(scans) : C23_Elements(scan.todo) \subseteq sp500
            /\ (started > 0 \/ scans # EmptyBag)
                 => (load_pc = "done" /\ sp500 # {} /\ closure.sp500 = sp500))
    /\ [][(prog = "portfolio" /\ Len(portfolio') > Len(portfolio))
           => \E scan \in BagToSet(scans) :
                /\ scan.pc = "quote"
                /\ Len(portfolio') = Len(portfolio) + 1
                /\ portfolio'[Len(portfolio')].symbol = Head(scan.todo)
                /\ Head(scan.todo) \in sp500']_vars

\* A position was bought while the loaded set leaves out a symbol the
\* trending list can hold.
C23_Witness ==
    /\ prog = "portfolio"
    /\ sp500 = {"IBM"}
    /\ Len(portfolio) = 1
    /\ portfolio[1].symbol = "IBM"
    /\ \E scan \in BagToSet(scans) : scan.pc = "done" \/ scan.todo = <<>>

\* C24: after stop(), with no further start(), the monitor thread begins no
\* further cycle once its sleep has ended and leaves monitor_loop.  A step
\* that ends a sleep with the flag cleared begins no cycle and goes to the
\* test of the loop; while the flag is cleared a thread that stands at the
\* test, asleep or returned begins no cycle; and once stop() has been
\* called the thread returns from monitor_loop, unless the process ends
\* before it does.
C24_StopCalled == prog = "agent" /\ main_pc \in {"joining", "stopped"}

C24_StopHonoured ==
    /\ [][(C24_StopCalled /\ ~running /\ mon_pc = "sleep"
            /\ mon_pc' # "sleep" /\ main_pc' = main_pc)
           => (mon_pc' = "loop" /\ cycles' = cycles)]_vars
    /\ [][(C24_StopCalled /\ ~running /\ main_pc' = main_pc
            /\ mon_pc \in {"loop", "sleep", "returned"})
           => (cycles' = cycles
               /\ mon_pc' \in {"loop", "sleep", "returned"})]_vars
    /\ [](C24_StopCalled => ~running)
    /\ (C24_StopCalled ~> (mon_pc = "returned" \/ main_pc = "exited"))

\* stop() came while the thread slept; the thread has left monitor_loop
\* with the process still alive, having begun no cycle since.
C24_Witness ==
    /\ prog = "agent"
    /\ stop_at = "sleep"
    /\ main_pc = "stopped"
    /\ ~running
    /\ mon_pc = "returned"

\* C25: one run places at most one opening order; the order is for an
\* option of the day's chains whose absolute delta lies in
\* [min_delta, max_delta], whose risk/reward ratio is at least
\* risk_reward_min and is the greatest among the options of all tickers
\* that meet both conditions; when no option meets them, no opening order
\* is placed.
C25_Qualifies(o) ==
    /\ Abs(o.delta) >= MIN_DELTA
    /\ Abs(o.delta) <= MAX_DELTA
    /\ RiskReward(o).num >= RISK_REWARD_MIN * RiskReward(o).den

C25_Opens == {k \in DOMAIN orders : orders[k].side = "open"}

C25_OneBestOrder ==
    prog = "scanner" =>
      /\ Cardinality(C25_Opens) <= 1
      /\ \A k \in C25_Opens :
            \E o \in options :
              /\ orders[k].symbol = OptionSymbol(o)
              /\ C25_Qualifies(o)
              /\ \A c \in options :
                    C25_Qualifies(c)
                    => RiskReward(o).num * RiskReward(c).den
                         >= RiskReward(c).num * RiskReward(o).den
      /\ (\A c \in options : ~C25_Qualifies(c)) => C25_Opens = {}

\* An order was placed for the best of two qualifying options of different
\* ratios, with an option of the chain left out for its delta though its
\* ratio is as good.
C25_Witness ==
    /\ prog = "scanner"
    /\ Cardinality(C25_Opens) = 1
    /\ \E a, b, c \in options :
          /\ C25_Qualifies(a)
          /\ C25_Qualifies(b)
          /\ a.ticker # b.ticker
          /\ RiskReward(a).num * RiskReward(b).den
               > RiskReward(b).num * RiskReward(a).den
          /\ orders[1].symbol = OptionSymbol(a)
          /\ Abs(c.delta) > MAX_DELTA
          /\ RiskReward(c).num * RiskReward(a).den
               >= RiskReward(a).num * RiskReward(c).den

\* C26: the monitoring loop of run() ends only with the list of open
\* positions empty, and it ends: whenever run() is past its loop the list
\* is empty, a step leaves the loop only from an empty list, and if every
\* time a position is open a quote comes later whose price is at or below
\* the stop or at or above the target of the position it is asked for,
\* then run() reaches its end with no position open.
C26_ExitQuote ==
    /\ last_eval.kind = "eval"
    /\ last_eval.current_price # Unavailable
    /\ \/ last_eval.current_price <= last_eval.position.stop_loss
       \/ last_eval.current_price >= last_eval.position.take_profit

C26_LoopEnds ==
    /\ []((prog = "scanner" /\ run_pc = "done") => positions = <<>>)
    /\ [][(run_pc \in {"monitor", "pass"} /\ run_pc' \notin {"monitor", "pass"})
           => (positions = <<>> /\ positions' = <<>> /\ run_pc' = "done")]_vars
    /\ (((positions # <<>>) ~> C26_ExitQuote)
          => <>(run_pc = "done" /\ positions = <<>>))

\* run() has ended after a position was opened and a quote at its stop or
\* target had it closed.
C26_Witness ==
    /\ prog = "scanner"
    /\ run_pc = "done"
    /\ positions = <<>>
    /\ C26_ExitQuote
    /\ Len(orders) = 2
    /\ orders[1].side = "open"
    /\ orders[2].side = "close"
    /\ Len(pass_log) = 1

====
